---- MODULE Spec2Model ----
(***************************************************************************)
(* Insight aggregation and caching core of the call-centre backend:        *)
(* the narrative merge (insights.py update_overall_insight), the agent     *)
(* refresh (insights.py update_single_agent_insights) and the city refresh *)
(* (citylevel_insights.py update_single_city_insights), each run by        *)
(* database sessions that share the committed rows.                        *)
(*                                                                         *)
(* Texts are sequences of tokens: a marker, a whitespace token or a word.  *)
(* Python's None is the one-token text None; the empty string is <<>>.     *)
(* Times are minutes.                                                      *)
(***************************************************************************)
EXTENDS Integers, Sequences, FiniteSets, TLC

VARIABLES
    clock,      \* wall clock (datetime.now()), minutes
    events,     \* requests, calls and clock advances so far (bounds the run)
    apiKey,     \* OPENROUTER_API_KEY is set
    calls,      \* committed rows of table calls
    agentRow,   \* committed narrative columns of the one row of table agents
    sess,       \* per database session: position and locals of the agent refresh
    cityRow,    \* committed row of table city_insights, or NoCityRow
    csess,      \* per database session: position and locals of the city refresh
    mpc,        \* merge harness: position
    mcur,       \* merge harness: current_overall passed in
    mreply,     \* merge harness: what the text-generation service answers
    mres,       \* merge harness: what update_overall_insight returned
    callStatus, \* committed calls.processing_status, by call id
    insights,   \* committed rows of table call_insights, by call id
    psess,      \* the request that processes a call: position and locals
    nin,        \* normalizer harness: the scores object of an analysis
    nout,       \* normalizer harness: the attributes assigned from it
    agentsTable,\* leaderboard harness: committed rows of table agents
    board,      \* leaderboard harness: the data list returned
    ireq,       \* the last ingestion: its arguments and what came of it
    others,     \* the rows of another agent and of another city
    pwin,       \* prompt harness: the calls of a window, as the query returns them
    pused       \* prompt harness: the calls a prompt was built from

\* the state of call processing, of the normalizer harness and of the
\* leaderboard harness
callVars == <<callStatus, insights, psess>>

normVars == <<nin, nout>>

boardVars == <<agentsTable, board>>

ingestVars == <<ireq>>

frameVars == <<others>>

promptVars == <<pwin, pused>>

extraVars == <<frameVars, promptVars>>

laterVars == <<callVars, normVars, boardVars, ingestVars, extraVars>>

vars == <<clock, events, apiKey, calls, agentRow, sess, cityRow, csess,
          mpc, mcur, mreply, mres, laterVars>>

-----------------------------------------------------------------------------
(* Bounds of the model *)

MaxRespLen == 4

MaxEvents == 4

-----------------------------------------------------------------------------
(* Texts *)

None == <<"<None>">>

OVERALL_START == "[OVERALL_START]"

OVERALL_END == "[OVERALL_END]"

CHANGE_START == "[CHANGE_START]"

CHANGE_END == "[CHANGE_END]"

WS == " "

Markers == {OVERALL_START, OVERALL_END, CHANGE_START, CHANGE_END}

Tokens == Markers \cup {WS, "w"}

\* Python truthiness of an Optional[str]: None and "" are falsy
Truthy(t) == t # None /\ t # <<>>

Contains(s, tok) == \E i \in 1..Len(s) : s[i] = tok

\* position of the first occurrence of tok in s, 0 when there is none
IndexOf(s, tok) ==
    IF Contains(s, tok)
    THEN CHOOSE i \in 1..Len(s) : s[i] = tok /\ \A j \in 1..(i-1) : s[j] # tok
    ELSE 0

\* s.split(sep)[0]: the text before the first sep, the whole text without one
split0(s, sep) ==
    IF Contains(s, sep) THEN SubSeq(s, 1, IndexOf(s, sep) - 1) ELSE s

\* s.split(sep)[1], defined only when s contains sep: the text between the
\* first sep and the next one (or the end)
split1(s, sep) ==
    split0(SubSeq(s, IndexOf(s, sep) + 1, Len(s)), sep)

\* str.strip(): leading and trailing whitespace removed
Strip(s) ==
    LET nonws == {i \in 1..Len(s) : s[i] # WS} IN
    IF nonws = {} THEN <<>>
    ELSE LET lo == CHOOSE i \in nonws : \A j \in nonws : i <= j
             hi == CHOOSE i \in nonws : \A j \in nonws : i >= j
         IN SubSeq(s, lo, hi)

SeqsUpTo(S, n) == UNION {[1..k -> S] : k \in 0..n}

-----------------------------------------------------------------------------
(* The text-generation service *)

\* A reply of the service: the request failed (transport error, HTTP error,
\* no choices), or it carries a message content
FailReply == [ok |-> FALSE, content |-> <<>>]

OkReply(c) == [ok |-> TRUE, content |-> c]

\* get_llm_response: None without an API key (no request is posted) or on any
\* failure, else the stripped content
get_llm_response(key, reply) ==
    IF ~key THEN None
    ELSE IF ~reply.ok THEN None
    ELSE Strip(reply.content)

\* whether get_llm_response posts a request
PostsRequest(key) == key

-----------------------------------------------------------------------------
(* insights.py: update_overall_insight *)

NoHistory == <<"No previous history available.">>

CouldNotGenerate == <<"Could not generate update.">>

ErrorParsing == <<"Error parsing change summary.">>

Returned(o, c) == [raised |-> FALSE, overall |-> o, change |-> c]

Raised == [raised |-> TRUE, overall |-> None, change |-> None]

\* the try block: two chained splits; [1] raises IndexError without the marker
parse_sections(response) ==
    IF ~Contains(response, OVERALL_START) THEN Raised
    ELSE IF ~Contains(response, CHANGE_START) THEN Raised
    ELSE Returned(Strip(split0(split1(response, OVERALL_START), OVERALL_END)),
                  Strip(split0(split1(response, CHANGE_START), CHANGE_END)))

\* an except block that lets the exception go
parse_fallback_raises(response) == Raised

\* the except block: both branches return the raw response
parse_fallback(response) == Returned(response, ErrorParsing)

update_overall_insight(current_overall, monthly_insight, response) ==
    LET cur == IF ~Truthy(current_overall) THEN NoHistory ELSE current_overall
    IN  IF ~Truthy(response) THEN Returned(cur, CouldNotGenerate)
        ELSE LET p == parse_sections(response)
             IN  IF p.raised THEN parse_fallback(response) ELSE p

-----------------------------------------------------------------------------
(* Time *)

NoTime == -1

TenMinutes == 10

OneHour == 60

MinutesPerDay == 1440

ThirtyDays == 30 * MinutesPerDay

\* a calendar month, taken as 31 days, and a year of twelve of them
MonthLen == 31 * MinutesPerDay

YearLen == 12 * MonthLen

\* datetime.month (0..11 here) and datetime.year
Month(t) == (t \div MonthLen) % 12

Year(t) == t \div YearLen

\* now.replace(hour=0, minute=0, second=0, microsecond=0)
StartOfDay(t) == (t \div MinutesPerDay) * MinutesPerDay

-----------------------------------------------------------------------------
(* The database *)

Sessions == {1, 2}

AgentIds == {"a1"}

MissingAgentId == "a0"

CityIds == {"c1"}

MissingCityId == "c0"

\* a new row of table agents: the narrative columns and the staleness clock
\* are NULL.  version counts the commits that changed the row.
AgentRow0 ==
    [latest_month_insight |-> None, overall_insight_text |-> None,
     latest_change_summary |-> None, last_insight_generated_at |-> NoTime,
     version |-> 0]

AgentColumns ==
    {"latest_month_insight", "overall_insight_text", "latest_change_summary",
     "last_insight_generated_at"}

\* Session.commit(): the flush updates the columns whose value differs from
\* the loaded one and leaves the other columns of the row alone
FlushAgent(row, loaded, obj) ==
    LET changed == {c \in AgentColumns : obj[c] # loaded[c]} IN
    [c \in DOMAIN row |->
        IF c \in changed THEN obj[c]
        ELSE IF c = "version" /\ changed # {} THEN row.version + 1
        ELSE row[c]]

\* another agent and another city, whose rows no refresh of a1 or c1 names
OtherAgentId == "a2"

OtherCityId == "c2"

\* the calls with call_timestamp >= since, whoever handled them
CallsOfAnyoneSince(a, since) == {c \in calls : c.ts >= since}

\* the calls of one agent, whatever their age
AgentCallsEver(a, since) == {c \in calls : c.agent = a}

\* the calls of one agent with call_timestamp >= since
AgentCallsSince(a, since) == {c \in calls : c.agent = a /\ c.ts >= since}

\* the calls of one city with call_timestamp >= since
CityCallsSince(cid, since) == {c \in calls : c.city = cid /\ c.ts >= since}

-----------------------------------------------------------------------------
(* insights.py: update_single_agent_insights, one database session each *)

Absent == <<"<absent>">>

NoResult ==
    [status |-> "none", message |-> "none", latest_month_insight |-> Absent,
     overall_insight_text |-> Absent, latest_change_summary |-> Absent]

ErrorResult(msg) == [NoResult EXCEPT !.status = "error", !.message = msg]

SuccessResult(msg, month, overall, change) ==
    [status |-> "success", message |-> msg, latest_month_insight |-> month,
     overall_insight_text |-> overall, latest_change_summary |-> change]

IdleSess ==
    [pc |-> "idle", agent |-> MissingAgentId, now |-> 0,
     loaded |-> AgentRow0, obj |-> AgentRow0,
     stamp |-> FALSE, requests |-> 0, wrote |-> FALSE, recent |-> FALSE,
     failed |-> FALSE, llm_calls |-> <<>>, read_agents |-> {},
     result |-> NoResult]

NoCallsMonth == <<"No calls recorded for this month.">>

NoActivity == <<"No activity to analyze.">>

\* the cache check with a ten-minute validity
AgentCacheHitTenMinutes(row, now) ==
    /\ row.last_insight_generated_at # NoTime
    /\ now - row.last_insight_generated_at < TenMinutes
    /\ Truthy(row.latest_month_insight)

\* lines 163-165: the one-hour cache, served only with a non-empty monthly insight
AgentCacheHit(row, now) ==
    /\ row.last_insight_generated_at # NoTime
    /\ now - row.last_insight_generated_at < OneHour
    /\ Truthy(row.latest_month_insight)

\* what the text-generation service may answer to the monthly prompt
MonthlyReplies == {FailReply, OkReply(<<"m1">>)}

\* what it may answer to the merge prompt: a well-formed answer, one without
\* markers
MergeReplies ==
    {FailReply,
     OkReply(<<OVERALL_START, WS, "o1", WS, OVERALL_END, WS,
               CHANGE_START, "c1", CHANGE_END>>),
     OkReply(<<"o2">>)}

\* lines 153-175: the agent is looked up; the cache decision
AgentLoad(s, id) ==
    /\ sess[s].pc = "idle"
    /\ \A t \in Sessions : t < s => sess[t].pc # "idle"
    /\ events < MaxEvents
    /\ events' = events + 1
    /\ IF id \notin AgentIds
       THEN sess' = [sess EXCEPT ![s] =
                [IdleSess EXCEPT !.pc = "done",
                                 !.result = ErrorResult("not found")]]
       ELSE LET hit == AgentCacheHit(agentRow, clock)
                base == [IdleSess EXCEPT
                            !.agent = id, !.now = clock, !.loaded = agentRow, !.obj = agentRow,
                            !.recent = AgentCallsSince(id, clock - TenMinutes) # {}]
            IN sess' = [sess EXCEPT ![s] =
                IF hit
                THEN [base EXCEPT !.pc = "done",
                        !.result = SuccessResult("cache",
                                        agentRow.latest_month_insight,
                                        agentRow.overall_insight_text,
                                        agentRow.latest_change_summary)]
                ELSE [base EXCEPT !.pc = "fetch"]]
    /\ UNCHANGED <<laterVars, clock, apiKey, calls, agentRow, cityRow, csess,
                   mpc, mcur, mreply, mres>>

\* lines 179-196: the 30-day window; without calls the placeholders are set.
\* read_agents keeps whose calls the query returned.
AgentFetch(s) ==
    /\ sess[s].pc = "fetch"
    /\ LET read == AgentCallsSince(sess[s].agent, clock - ThirtyDays)
           n == Cardinality(read)
           owners == {c.agent : c \in read}
       IN
       sess' = [sess EXCEPT ![s] =
          IF n = 0
          THEN [@ EXCEPT !.pc = "commit", !.read_agents = owners,
                    !.obj = [@ EXCEPT !.latest_month_insight = NoCallsMonth,
                                      !.latest_change_summary = NoActivity]]
          ELSE [@ EXCEPT !.pc = "generate", !.read_agents = owners]]
    /\ UNCHANGED <<laterVars, clock, events, apiKey, calls, agentRow, cityRow, csess,
                   mpc, mcur, mreply, mres>>

\* lines 221-226: the calls of get_llm_response made by one refresh, in the
\* order in which they are made and return; input is the monthly insight
\* handed to the merge
AgentLlmCalls(monthly_insight) ==
    <<[kind |-> "monthly", input |-> None],
      [kind |-> "overall", input |-> monthly_insight]>>

\* lines 207-232: the monthly insight of a non-empty window, then the merge
\* into the overall narrative, then the assignments before the commit; the two
\* requests are issued one after the other
AgentGenerate(s, monthly_reply, merge_reply) ==
    /\ sess[s].pc = "generate"
    /\ LET monthly_insight == get_llm_response(apiKey, monthly_reply)
           current_overall == sess[s].obj.overall_insight_text
           response == get_llm_response(apiKey, merge_reply)
           r == update_overall_insight(current_overall, monthly_insight, response)
       IN sess' = [sess EXCEPT ![s] =
            [@ EXCEPT !.pc = IF r.raised THEN "raised" ELSE "commit",
                      !.stamp = TRUE,
                      !.failed = ~Truthy(response),
                      !.requests = IF PostsRequest(apiKey) THEN 2 ELSE 0,
                      !.llm_calls = AgentLlmCalls(monthly_insight),
                      !.obj = [@ EXCEPT !.latest_month_insight = monthly_insight,
                                        !.overall_insight_text = r.overall,
                                        !.latest_change_summary = r.change,
                                        !.last_insight_generated_at = clock]]]
    /\ UNCHANGED <<laterVars, clock, events, apiKey, calls, agentRow, cityRow, csess,
                   mpc, mcur, mreply, mres>>

\* lines 197 and 236: db.commit()
AgentCommit(s) ==
    /\ sess[s].pc = "commit"
    /\ agentRow' = FlushAgent(agentRow, sess[s].loaded, sess[s].obj)
    /\ sess' = [sess EXCEPT ![s] =
          [@ EXCEPT !.pc = "return", !.wrote = (agentRow' # agentRow)]]
    /\ UNCHANGED <<laterVars, clock, events, apiKey, calls, cityRow, csess,
                   mpc, mcur, mreply, mres>>

\* lines 198-205 and 239-247: the result is built from the attributes of the
\* agent, which the commit expired and which are read again from the row
AgentReturn(s) ==
    /\ sess[s].pc = "return"
    /\ sess' = [sess EXCEPT ![s] =
          [@ EXCEPT !.pc = "done",
               !.result =
                  IF sess[s].stamp
                  THEN SuccessResult("updated", agentRow.latest_month_insight,
                                     agentRow.overall_insight_text,
                                     agentRow.latest_change_summary)
                  ELSE SuccessResult("rolled over", agentRow.latest_month_insight,
                                     agentRow.overall_insight_text, Absent)]]
    /\ UNCHANGED <<laterVars, clock, events, apiKey, calls, agentRow, cityRow, csess,
                   mpc, mcur, mreply, mres>>

\* lines 249-253: a statement that reaches the database (the queries, the
\* commit, the reload after the commit) raises; rollback and status error
AgentRaise(s) ==
    /\ sess[s].pc \in {"fetch", "commit", "return", "raised"}
    /\ sess' = [sess EXCEPT ![s] =
          [@ EXCEPT !.pc = "done", !.obj = sess[s].loaded,
                    !.result = ErrorResult("exception")]]
    /\ UNCHANGED <<laterVars, clock, events, apiKey, calls, agentRow, cityRow, csess,
                   mpc, mcur, mreply, mres>>

\* backend.py generate_agent_insights, lines 213-216: the HTTP status of the
\* answer, from the result of update_single_agent_insights
generate_agent_insights(result) ==
    IF result.status = "error" THEN 404 ELSE 200

\* backend.py get_db: the request ends and its session is closed
AgentClose(s) ==
    /\ sess[s].pc = "done"
    /\ sess' = [sess EXCEPT ![s] = IdleSess]
    /\ UNCHANGED <<laterVars, clock, events, apiKey, calls, agentRow, cityRow, csess,
                   mpc, mcur, mreply, mres>>

-----------------------------------------------------------------------------
(* citylevel_insights.py: update_single_city_insights, one session each *)

\* no row of table city_insights for the city
NoCityRow ==
    [exists |-> FALSE, daily_ops_insight |-> None, latest_month_insight |-> None,
     overall_city_insight |-> None, coaching_focus_for_city |-> None,
     last_insight_generated_at |-> NoTime, version |-> 0]

\* CityInsight(city_id=city.id): every other column NULL
NewCityRow == [NoCityRow EXCEPT !.exists = TRUE]

CityColumns ==
    {"daily_ops_insight", "latest_month_insight", "overall_city_insight",
     "coaching_focus_for_city", "last_insight_generated_at"}

\* Session.commit() of a session that added the row inserts it; of one that
\* loaded it, updates the columns whose value differs from the loaded one
FlushCity(row, loaded, obj, created) ==
    IF created THEN [obj EXCEPT !.version = row.version + 1]
    ELSE LET changed == {c \in CityColumns : obj[c] # loaded[c]} IN
         [c \in DOMAIN row |->
            IF c \in changed THEN obj[c]
            ELSE IF c = "version" /\ changed # {} THEN row.version + 1
            ELSE row[c]]

NoCityResult ==
    [status |-> "none", message |-> "none", daily_ops_insight |-> Absent,
     latest_month_insight |-> Absent, overall_city_insight |-> Absent,
     coaching_focus_for_city |-> Absent]

CityErrorResult(msg) == [NoCityResult EXCEPT !.status = "error", !.message = msg]

CitySuccessResult(msg, row) ==
    [status |-> "success", message |-> msg,
     daily_ops_insight |-> row.daily_ops_insight,
     latest_month_insight |-> row.latest_month_insight,
     overall_city_insight |-> row.overall_city_insight,
     coaching_focus_for_city |-> row.coaching_focus_for_city]

IdleCitySess ==
    [pc |-> "idle", city |-> MissingCityId, now |-> 0, created |-> FALSE,
     loaded |-> NoCityRow, obj |-> NoCityRow, recent |-> FALSE,
     has_today |-> FALSE, has_month |-> FALSE, has_coaching |-> FALSE,
     requests |-> 0, coaching_requested |-> FALSE, overall_failed |-> FALSE,
     wrote |-> FALSE, llm_calls |-> <<>>, read_cities |-> {},
     windowed |-> FALSE, result |-> NoCityResult]

NoCallsToday == <<"No calls recorded today for operational analysis.">>

NoCalls30Days == <<"No calls recorded in the last 30 days.">>

NoCoachingData == <<"No sufficient data for coaching analysis.">>

NoCoachingInsights == <<"No coaching insights available to analyze.">>

DailyReplies == {FailReply, OkReply(<<"d1">>)}

CityMonthlyReplies == {FailReply, OkReply(<<"m1">>)}

OverallReplies == {FailReply, OkReply(<<"o1">>)}

CoachingReplies == {FailReply, OkReply(<<"k1">>)}

\* lines 199-205 and 286-291: is_cache_fresh
CityCacheFresh(row, now) ==
    /\ row.last_insight_generated_at # NoTime
    /\ now - row.last_insight_generated_at < OneHour

\* the cache decision without the recent-calls override
CityCacheHitIgnoringCalls(row, now, recent_calls_exist) ==
    CityCacheFresh(row, now)

\* lines 208 and 294: if is_cache_fresh and not recent_calls_exist
CityCacheHit(row, now, recent_calls_exist) ==
    CityCacheFresh(row, now) /\ ~recent_calls_exist

\* generate_city_daily_ops_insight
generate_city_daily_ops_insight(has_today, response) ==
    IF ~has_today THEN NoCallsToday ELSE response

\* generate_city_monthly_insight
generate_city_monthly_insight(has_month, response) ==
    IF ~has_month THEN NoCalls30Days ELSE response

\* update_city_overall_insight: whatever get_llm_response returned
update_city_overall_insight(current_overall, monthly_insight, response) ==
    response

\* generate_city_coaching_focus
generate_city_coaching_focus(has_month, has_coaching, response) ==
    IF ~has_month THEN NoCoachingData
    ELSE IF ~has_coaching THEN NoCoachingInsights
    ELSE response

\* the coaching focus generated on every refresh
ShouldGenerateCoachingAlways(row, now) == TRUE

\* lines 328-332: should_generate_coaching
ShouldGenerateCoaching(row, now) ==
    ~(/\ Truthy(row.coaching_focus_for_city)
      /\ row.last_insight_generated_at # NoTime
      /\ Month(row.last_insight_generated_at) = Month(now)
      /\ Year(row.last_insight_generated_at) = Year(now))

\* another session has inserted the CityInsight row (db.flush(), line 185)
\* in a transaction that has neither committed nor rolled back
InsertPending(s) ==
    \E t \in Sessions \ {s} :
        csess[t].created /\ csess[t].pc \in {"fetch", "generate", "commit"}

\* lines 168-222: the city is looked up, its CityInsight row is loaded or
\* added and flushed, and the cache decision is taken.  The INSERT of the
\* flush waits while another transaction holds an uncommitted row of the
\* same primary key.
CityLoad(s, id) ==
    /\ csess[s].pc = "idle"
    /\ \A t \in Sessions : t < s => csess[t].pc # "idle"
    /\ events < MaxEvents
    /\ events' = events + 1
    /\ IF id \notin CityIds
       THEN csess' = [csess EXCEPT ![s] =
                [IdleCitySess EXCEPT !.pc = "done", !.now = clock,
                                     !.result = CityErrorResult("not found")]]
       ELSE IF ~cityRow.exists
       THEN csess' = [csess EXCEPT ![s] =
                [IdleCitySess EXCEPT
                    !.pc = IF InsertPending(s) THEN "flush" ELSE "fetch",
                    !.city = id, !.now = clock, !.created = TRUE,
                    !.loaded = NewCityRow, !.obj = NewCityRow]]
       ELSE LET recent_calls_exist == CityCallsSince(id, clock - TenMinutes) # {}
                base == [IdleCitySess EXCEPT
                            !.city = id, !.now = clock, !.loaded = cityRow,
                            !.obj = cityRow, !.recent = recent_calls_exist,
                            !.read_cities =
                                {x.city : x \in CityCallsSince(id,
                                                   clock - TenMinutes)}]
            IN csess' = [csess EXCEPT ![s] =
                IF CityCacheHit(cityRow, clock, recent_calls_exist)
                THEN [base EXCEPT !.pc = "done",
                                  !.result = CitySuccessResult("cache", cityRow)]
                ELSE [base EXCEPT !.pc = "fetch"]]
    /\ UNCHANGED <<laterVars, clock, apiKey, calls, agentRow, sess, cityRow,
                   mpc, mcur, mreply, mres>>

\* line 185, db.flush(), once the transaction it waited for has ended: the
\* INSERT goes through if that transaction rolled back, and raises
\* IntegrityError (duplicate key) if it committed; the except block (lines
\* 362-366) rolls back and answers status error
CityFlush(s) ==
    /\ csess[s].pc = "flush"
    /\ ~InsertPending(s)
    /\ csess' = [csess EXCEPT ![s] =
          IF cityRow.exists
          THEN [@ EXCEPT !.pc = "done",
                         !.result = CityErrorResult("IntegrityError")]
          ELSE [@ EXCEPT !.pc = "fetch"]]
    /\ UNCHANGED <<laterVars, clock, events, apiKey, calls, agentRow, sess, cityRow,
                   mpc, mcur, mreply, mres>>

\* lines 223-308: the 30-day window, split into today and the month, and the
\* second cache check on the row the session already holds
\* the time the second cache check compares with, at a moment of the
\* request later than its entry: a clock read again
NowReadAgain(now_at_entry, now_at_check) == now_at_check

\* line 175: now is read once, at entry, and both cache checks use it
NowAtSecondCheck(now_at_entry, now_at_check) == now_at_entry

CityFetch(s) ==
    /\ csess[s].pc = "fetch"
    /\ LET c == csess[s]
           month == CityCallsSince(c.city, c.now - ThirtyDays)
           today == {x \in month : x.ts >= StartOfDay(c.now)}
           now == NowAtSecondCheck(c.now, clock)
           recent_calls == CityCallsSince(c.city, now - TenMinutes)
           recent_calls_exist == recent_calls # {}
           fetched == [c EXCEPT !.windowed = TRUE,
                                !.read_cities =
                                    @ \cup {x.city : x \in month}
                                      \cup {x.city : x \in recent_calls},
                                !.has_today = today # {},
                                !.has_month = month # {},
                                !.has_coaching = \E x \in month : x.coaching]
       IN csess' = [csess EXCEPT ![s] =
            IF CityCacheHit(c.obj, now, recent_calls_exist)
            THEN [fetched EXCEPT !.pc = "done",
                                 !.result = CitySuccessResult("cache", c.obj)]
            ELSE [fetched EXCEPT !.pc = "generate"]]
    /\ UNCHANGED <<laterVars, clock, events, apiKey, calls, agentRow, sess, cityRow,
                   mpc, mcur, mreply, mres>>

\* the calls of get_llm_response with the merge made before the monthly
\* insight is generated, on the monthly insight the row held
CityLlmCallsMergeFirst(has_today, has_month, asks, stored_insight, monthly_insight) ==
    <<[kind |-> "overall", input |-> stored_insight]>>
    \o (IF has_month THEN <<[kind |-> "monthly", input |-> None]>> ELSE <<>>)

\* lines 310-339: the calls of get_llm_response made by one refresh, in the
\* order in which they are made and return (each generator returns its
\* placeholder without a call when it has no data); input is the monthly
\* insight handed to update_city_overall_insight
CityLlmCalls(has_today, has_month, asks, stored_insight, monthly_insight) ==
    (IF has_today THEN <<[kind |-> "daily", input |-> None]>> ELSE <<>>)
    \o (IF has_month THEN <<[kind |-> "monthly", input |-> None]>> ELSE <<>>)
    \o <<[kind |-> "overall", input |-> monthly_insight]>>
    \o (IF asks THEN <<[kind |-> "coaching", input |-> None]>> ELSE <<>>)

\* lines 310-346: the daily, monthly, overall and coaching narratives, one
\* request after the other, the coaching focus gated by the month of the last
\* generation; then the new staleness clock
CityGenerate(s, daily_reply, monthly_reply, overall_reply, coaching_reply) ==
    /\ csess[s].pc = "generate"
    /\ LET c == csess[s]
           daily_ops == generate_city_daily_ops_insight(c.has_today,
                            get_llm_response(apiKey, daily_reply))
           monthly_insight == generate_city_monthly_insight(c.has_month,
                                  get_llm_response(apiKey, monthly_reply))
           response == get_llm_response(apiKey, overall_reply)
           updated_overall == update_city_overall_insight(
                                  c.obj.overall_city_insight, monthly_insight,
                                  response)
           should == ShouldGenerateCoaching(c.obj, c.now)
           asks == should /\ c.has_month /\ c.has_coaching
           coaching_focus ==
               IF should
               THEN generate_city_coaching_focus(c.has_month, c.has_coaching,
                        get_llm_response(apiKey, coaching_reply))
               ELSE c.obj.coaching_focus_for_city
           posted == (IF c.has_today THEN 1 ELSE 0) + (IF c.has_month THEN 1 ELSE 0)
                     + 1 + (IF asks THEN 1 ELSE 0)
       IN /\ ~c.has_today => daily_reply = FailReply
          /\ ~c.has_month => monthly_reply = FailReply
          /\ ~asks => coaching_reply = FailReply
          /\ csess' = [csess EXCEPT ![s] =
               [@ EXCEPT !.pc = "commit",
                    !.requests = IF PostsRequest(apiKey) THEN posted ELSE 0,
                    !.coaching_requested = asks /\ PostsRequest(apiKey),
                    !.llm_calls = CityLlmCalls(c.has_today, c.has_month, asks,
                                      c.obj.latest_month_insight,
                                      monthly_insight),
                    !.overall_failed = ~Truthy(response),
                    !.obj = [@ EXCEPT
                       !.daily_ops_insight = daily_ops,
                       !.latest_month_insight = monthly_insight,
                       !.overall_city_insight = updated_overall,
                       !.coaching_focus_for_city = coaching_focus,
                       !.last_insight_generated_at = clock]]]
    /\ UNCHANGED <<laterVars, clock, events, apiKey, calls, agentRow, sess, cityRow,
                   mpc, mcur, mreply, mres>>

\* line 348: db.commit()
CityCommit(s) ==
    /\ csess[s].pc = "commit"
    /\ cityRow' = FlushCity(cityRow, csess[s].loaded, csess[s].obj,
                            csess[s].created)
    /\ csess' = [csess EXCEPT ![s] =
          [@ EXCEPT !.pc = "return", !.wrote = (cityRow' # cityRow)]]
    /\ UNCHANGED <<laterVars, clock, events, apiKey, calls, agentRow, sess,
                   mpc, mcur, mreply, mres>>

\* lines 349-360: city.name, expired by the commit, is read again from the
\* row; the result is built from the locals
CityReturn(s) ==
    /\ csess[s].pc = "return"
    /\ csess' = [csess EXCEPT ![s] =
          [@ EXCEPT !.pc = "done",
                    !.result = CitySuccessResult("updated", csess[s].obj)]]
    /\ UNCHANGED <<laterVars, clock, events, apiKey, calls, agentRow, sess, cityRow,
                   mpc, mcur, mreply, mres>>

\* lines 362-366: a statement that reaches the database raises; rollback
\* (the flushed insert included) and status error
CityRaise(s) ==
    /\ csess[s].pc \in {"fetch", "commit", "return"}
    /\ csess' = [csess EXCEPT ![s] =
          [@ EXCEPT !.pc = "done", !.obj = csess[s].loaded,
                    !.result = CityErrorResult("exception")]]
    /\ UNCHANGED <<laterVars, clock, events, apiKey, calls, agentRow, sess, cityRow,
                   mpc, mcur, mreply, mres>>

\* backend.py get_db: the request ends and its session is closed
CityClose(s) ==
    /\ csess[s].pc = "done"
    /\ csess' = [csess EXCEPT ![s] = IdleCitySess]
    /\ UNCHANGED <<laterVars, clock, events, apiKey, calls, agentRow, sess, cityRow,
                   mpc, mcur, mreply, mres>>

-----------------------------------------------------------------------------
(* call_processing_service.py: the score normalizers.  Scores are counted   *)
(* in thousandths: 250 is 0.25, 1000 is 1.0.                                *)

\* a sentiment normalizer that sends the boundary values to the lower bucket
normalize_sentiment_lower(score) ==
    IF score <= 250 THEN 0
    ELSE IF score <= 750 THEN 500
    ELSE 1000

\* a resolution normalizer that lets a score above 1 through
normalize_resolution_unclamped(score) ==
    IF score < 375 THEN 0
    ELSE IF score < 875 THEN 750
    ELSE IF score <= 1000 THEN 1000
    ELSE score

\* normalize_sentiment_score: 0, 0.5 or 1
normalize_sentiment_score(score) ==
    IF score < 250 THEN 0
    ELSE IF score < 750 THEN 500
    ELSE 1000

\* normalize_resolution_score: 0, 0.75 or 1
normalize_resolution_score(score) ==
    IF score < 375 THEN 0
    ELSE IF score < 875 THEN 750
    ELSE 1000

\* a key of the scores object: <<>> when the key is absent, <<x>> when it
\* carries the number x
NoScore == <<>>

\* float(scores.get(key, 0.0))
ScoreGet(s) == IF s = NoScore THEN 0 ELSE s[1]

\* dict.get(key, default) of a text key, absent or present
DictGet(v, default) == IF v = Absent THEN default ELSE v

-----------------------------------------------------------------------------
(* call_processing_service.py: process_call_for_ai_evaluation, run by the   *)
(* ingestion endpoint and by POST /api/calls/{call_id}/process              *)

ProcessingStatuses == {"pending", "transcribed", "analyzed", "failed"}

\* a NULL of a numeric column
SqlNull == -1

\* no row of table call_insights for the call
NoInsight ==
    [exists |-> FALSE, escalation_risk |-> FALSE, why_flagged |-> None,
     sentiment_stabilization_score |-> SqlNull,
     resolution_path_validity_score |-> SqlNull, business_insight |-> None]

\* CallInsight(call_id=call_id), db.add: every other column unset
NewInsight == [NoInsight EXCEPT !.exists = TRUE]

\* models.py CallInsight: the NOT NULL columns and the check constraints
InsightConstraints(row) ==
    /\ row.sentiment_stabilization_score \in {0, 500, 1000}
    /\ row.resolution_path_validity_score \in {0, 750, 1000}
    /\ row.escalation_risk => row.why_flagged # None

DefaultReason == <<"High escalation risk detected">>

\* an answer of the analysis service: the request raised (code 0), or it has
\* a status code; a 200 has a body that either is the expected JSON object
\* (parses) or makes its handling raise
NoBody ==
    [escalation_risk |-> NoScore, sentiment_stabilization |-> NoScore,
     resolution_validity |-> NoScore, why_flagged |-> Absent,
     business_insight |-> Absent]

RaisedAnswer == [code |-> 0, parses |-> FALSE, body |-> NoBody]

FailedAnswer == [code |-> 500, parses |-> FALSE, body |-> NoBody]

MalformedAnswer == [code |-> 200, parses |-> FALSE, body |-> NoBody]

AnalysisBodies ==
    [escalation_risk : {<<500>>, <<501>>},
     sentiment_stabilization : {NoScore, <<250>>},
     resolution_validity : {<<874>>},
     why_flagged : {Absent, <<>>, <<"r">>},
     business_insight : {Absent, <<>>, <<"b">>}]

Answers ==
    {RaisedAnswer, FailedAnswer, MalformedAnswer}
    \cup {[code |-> 200, parses |-> TRUE, body |-> b] : b \in AnalysisBodies}

\* why_flagged as the analysis gives it, whatever the flag
why_flagged_as_given(escalation_risk, body) == DictGet(body.why_flagged, None)

\* lines 152-156: a reason whenever the flag is set, NULL whenever it is not
why_flagged_for(escalation_risk, body) ==
    IF escalation_risk
    THEN IF Truthy(DictGet(body.why_flagged, None)) THEN body.why_flagged
         ELSE IF Truthy(DictGet(body.business_insight, None))
              THEN body.business_insight
         ELSE DefaultReason
    ELSE None

\* lines 131-166: the attributes of call_insight that are columns of
\* CallInsight and are assigned from the analysis; the other assignments
\* (sop_compliance_score, communication_score, resolution_validity_score,
\* overall_quality_score, coaching_priority, ...) name no column
assign_insight(row, body) ==
    LET esc_risk == ScoreGet(body.escalation_risk) > 500 IN
    [row EXCEPT
        !.sentiment_stabilization_score =
            normalize_sentiment_score(ScoreGet(body.sentiment_stabilization)),
        !.escalation_risk = esc_risk,
        !.why_flagged = why_flagged_for(esc_risk, body),
        !.business_insight = DictGet(body.business_insight, <<>>)]

NoCall == 0

NoProcessResult == [status |-> "none", message |-> "none"]

IdleProcess ==
    [pc |-> "idle", call |-> NoCall, via |-> "none", answer |-> RaisedAnswer,
     created |-> FALSE, loaded |-> NoInsight, obj |-> NoInsight,
     status_before |-> "none", result |-> NoProcessResult, http |-> 0,
     reported |-> "none"]

\* what the endpoint answers: the ingestion endpoint always 200 with
\* processing.status analyzed or failed (backend.py 384-420); the trigger
\* endpoint 404 for every result of status error (backend.py 449-452)
Finished(p, result) ==
    [p EXCEPT
        !.pc = "done",
        !.result = result,
        !.http = IF p.via = "ingest" THEN 200
                 ELSE IF result.status = "error" THEN 404 ELSE 200,
        !.reported = IF p.via # "ingest" THEN "none"
                     ELSE IF result.status = "success" THEN "analyzed"
                     ELSE "failed"]

NewCallId == Cardinality(calls) + 1

-----------------------------------------------------------------------------
(* call_engestion.py ingest_call and backend.py POST /ingest/call *)

\* KNOWN_AGENTS: names of agents and their ids
KNOWN_AGENTS == [name \in {"n1"} |-> "a1"]

\* what a caller may pass as agent_identifier: a known name, the id of an
\* agent of the table, or neither
AgentIdentifiers == DOMAIN KNOWN_AGENTS \cup AgentIds \cup {MissingAgentId}

NoAgent == "<no agent>"

\* validate_and_get_agent_id: the id of the agent, or NoAgent where the
\* function raises ValueError
validate_and_get_agent_id(agent_identifier) ==
    IF agent_identifier \in DOMAIN KNOWN_AGENTS
    THEN KNOWN_AGENTS[agent_identifier]
    ELSE IF agent_identifier \in AgentIds THEN agent_identifier
    ELSE NoAgent

\* CITIES_MAP: ids of the cities served
CITIES_MAP == {"c1", "c2"}

CityIdentifiers == CITIES_MAP \cup {MissingCityId}

\* resolve_city_id: the ids the function may return; for an identifier that
\* is no city it returns random.choice(list(CITIES_MAP.keys()))
resolve_city_id(city_identifier) ==
    IF city_identifier \in CITIES_MAP THEN {city_identifier} ELSE CITIES_MAP

\* duration_seconds as passed in: None, or a number of seconds
NoDuration == -1

DurationInputs == {NoDuration, 0, 90}

\* random.randint(60, 600): the two ends of the range
RandomDurations == {60, 600}

\* duration_seconds = duration_seconds or random.randint(60, 600)
duration_or_random(duration_seconds) ==
    IF duration_seconds = NoDuration \/ duration_seconds = 0
    THEN RandomDurations
    ELSE {duration_seconds}

\* no ingestion yet.  outcome is "stored", or the exception that ended the
\* ingestion; http is the status of the endpoint's answer (0: not a request
\* to the endpoint); call is the id of the call stored, duration_stored its
\* duration_seconds
NoRequest ==
    [via |-> "none", agent_identifier |-> "none", city_identifier |-> "none",
     duration_seconds |-> NoDuration, outcome |-> "none", http |-> 0,
     call |-> NoCall, duration_stored |-> NoDuration]

\* ingest_call, run from the command line (lines 408-461): the agent and the
\* city are resolved and the call is inserted with processing_status
\* 'pending'; an agent that is not found raises ValueError and nothing is
\* stored
ingest_call(agent_identifier, city_identifier, duration_seconds) ==
    LET request == [NoRequest EXCEPT !.via = "cli",
                                     !.agent_identifier = agent_identifier,
                                     !.city_identifier = city_identifier,
                                     !.duration_seconds = duration_seconds]
        agent_id == validate_and_get_agent_id(agent_identifier)
    IN
    /\ events < MaxEvents
    /\ events' = events + 1
    /\ IF agent_id = NoAgent
       THEN /\ ireq' = [request EXCEPT !.outcome = "ValueError"]
            /\ UNCHANGED <<calls, callStatus, insights>>
       ELSE \E city_id \in resolve_city_id(city_identifier),
               duration \in duration_or_random(duration_seconds) :
               /\ calls' = calls \cup {[id |-> NewCallId, agent |-> agent_id,
                                        city |-> city_id, ts |-> clock,
                                        coaching |-> FALSE]}
               /\ callStatus' = callStatus @@ (NewCallId :> "pending")
               /\ insights' = insights @@ (NewCallId :> NoInsight)
               /\ ireq' = [request EXCEPT !.outcome = "stored",
                                          !.call = NewCallId,
                                          !.duration_stored = duration]
    /\ UNCHANGED <<normVars, boardVars, extraVars, psess, clock, apiKey, agentRow, sess,
                   cityRow, csess, mpc, mcur, mreply, mres>>

\* the length mutagen reads from the uploaded file, or NoDuration where
\* MP3(temp_file_path) raises
ProbedLengths == {NoDuration, 90}

\* backend.py ingest_call_endpoint.  A file name that does not end in .mp3
\* raises HTTPException(400) inside the try block, where `except Exception`
\* (lines 425-428) turns it into a 500.  Otherwise the duration is probed
\* (0 when the probe raises) and ingest_call is called with the keyword
\* customer_preferred_language (line 370), which ingest_call (lines 268-279)
\* does not take: the call raises TypeError before ingest_call runs, nothing
\* is stored, the automatic processing (lines 380-421) is not reached, and
\* the same handler answers 500.
IngestCallEndpoint(is_mp3, agent_identifier, city_identifier, length) ==
    LET duration_seconds == IF length = NoDuration THEN 0 ELSE length IN
    /\ events < MaxEvents
    /\ events' = events + 1
    /\ ireq' = [NoRequest EXCEPT
                   !.via = "endpoint",
                   !.agent_identifier = agent_identifier,
                   !.city_identifier = city_identifier,
                   !.duration_seconds =
                       IF is_mp3 THEN duration_seconds ELSE NoDuration,
                   !.outcome = IF is_mp3 THEN "TypeError" ELSE "HTTPException",
                   !.http = 500]
    /\ UNCHANGED <<callVars, normVars, boardVars, extraVars, clock, apiKey, calls,
                   agentRow, sess, cityRow, csess, mpc, mcur, mreply, mres>>

\* backend.py trigger_call_processing and lines 29-35: the call is looked up
TriggerProcess(k) ==
    /\ psess.pc = "idle"
    /\ events < MaxEvents
    /\ events' = events + 1
    /\ psess' = IF k \notin DOMAIN callStatus
                THEN Finished([IdleProcess EXCEPT !.via = "trigger"],
                              [status |-> "error", message |-> "not found"])
                ELSE [IdleProcess EXCEPT !.pc = "post", !.call = k,
                                         !.via = "trigger",
                                         !.status_before = callStatus[k]]
    /\ UNCHANGED <<normVars, boardVars, extraVars, ingestVars,
                   callStatus, insights, clock, apiKey,
                   calls, agentRow, sess, cityRow, csess, mpc, mcur, mreply,
                   mres>>

\* lines 82-166 and 182-183: the request to the analysis service and the
\* handling of its answer, up to the commit; the session keeps the status
\* code of the answer and the row it built from the body
ProcessPost(answer) ==
    /\ psess.pc = "post"
    /\ psess' =
         LET p == [psess EXCEPT !.answer = [answer EXCEPT !.body = NoBody]] IN
         IF answer.code = 0 \/ (answer.code = 200 /\ ~answer.parses)
         THEN Finished(p, [status |-> "error", message |-> "Integration failed"])
         ELSE IF answer.code # 200
         THEN [p EXCEPT !.pc = "commit"]
         ELSE LET row == insights[psess.call]
                  mine == IF row.exists THEN row ELSE NewInsight
              IN [p EXCEPT !.pc = "commit", !.created = ~row.exists,
                           !.loaded = row,
                           !.obj = assign_insight(mine, answer.body)]
    /\ UNCHANGED <<normVars, boardVars, extraVars, ingestVars,
                   callStatus, insights, clock, events,
                   apiKey, calls, agentRow, sess, cityRow, csess, mpc, mcur,
                   mreply, mres>>

\* a status written by a commit of its own, ahead of the insight row
StatusCommittedApart(before) == "analyzed"

\* lines 168-172 and 192-198: processing_status = 'analyzed' is part of the
\* transaction that writes the insight row; when the commit raises, the
\* stored status is the one from before
StatusAfterFailedCommit(before) == before

\* lines 172 and 185: db.commit().  The INSERT of a row added by this session
\* leaves the NOT NULL score columns unset and raises; the except block
\* (192-198) answers without a rollback and without touching the status
ProcessCommit ==
    /\ psess.pc = "commit"
    /\ IF psess.answer.code # 200
       THEN /\ callStatus' = [callStatus EXCEPT ![psess.call] = "failed"]
            /\ insights' = insights
            /\ psess' = Finished(psess, [status |-> "error",
                                         message |-> "AI Agent Error"])
       ELSE IF ~InsightConstraints(psess.obj)
       THEN /\ callStatus' = [callStatus EXCEPT ![psess.call] =
                                  StatusAfterFailedCommit(@)]
            /\ insights' = insights
            /\ psess' = Finished(psess, [status |-> "error",
                                         message |-> "Integration failed"])
       ELSE /\ callStatus' = [callStatus EXCEPT ![psess.call] = "analyzed"]
            /\ insights' = [insights EXCEPT ![psess.call] = psess.obj]
            /\ psess' = Finished(psess, [status |-> "success",
                                         message |-> "saved"])
    /\ UNCHANGED <<normVars, boardVars, extraVars, ingestVars,
                   clock, events, apiKey, calls, agentRow,
                   sess, cityRow, csess, mpc, mcur, mreply, mres>>

\* the request ends and its session is closed
ProcessClose ==
    /\ psess.pc = "done"
    /\ psess' = IdleProcess
    /\ UNCHANGED <<normVars, boardVars, extraVars, ingestVars,
                   callStatus, insights, clock, events,
                   apiKey, calls, agentRow, sess, cityRow, csess, mpc, mcur,
                   mreply, mres>>

-----------------------------------------------------------------------------
(* The normalizers alone: lines 137-142 on every scores object *)

MaxOutOfRange == 50

\* the numbers a key of the scores object may carry, in thousandths: the
\* range [0,1] and MaxOutOfRange thousandths on either side of it
ScoreInputs ==
    {NoScore} \cup {<<x>> : x \in (0 - MaxOutOfRange)..(1000 + MaxOutOfRange)}

NoScores ==
    [sentiment_stabilization |-> NoScore, resolution_validity |-> NoScore]

NotAssigned ==
    [assigned |-> FALSE, sentiment_stabilization_score |-> SqlNull,
     resolution_validity_score |-> SqlNull]

\* lines 137-142: the two attributes assigned from the scores object
AssignScores ==
    /\ ~nout.assigned
    /\ nout' =
         [assigned |-> TRUE,
          sentiment_stabilization_score |->
              normalize_sentiment_score(ScoreGet(nin.sentiment_stabilization)),
          resolution_validity_score |->
              normalize_resolution_score(ScoreGet(nin.resolution_validity))]
    /\ UNCHANGED <<callVars, boardVars, extraVars, ingestVars, nin,
                   clock, events, apiKey, calls,
                   agentRow, sess, cityRow, csess, mpc, mcur, mreply, mres>>

-----------------------------------------------------------------------------
(* leaderboard_service.py: get_agent_leaderboard_data *)

MaxBoardAgents == 3

MaxScore == 1

MaxCallsTotal == 1

\* the rows of table agents the leaderboard reads: current_quality_score and
\* calls_handled_total are nullable
BoardRows ==
    [current_quality_score : {SqlNull} \cup 0..MaxScore,
     calls_handled_total : {SqlNull} \cup 0..MaxCallsTotal]

BoardTables == UNION {[1..n -> BoardRows] : n \in 1..MaxBoardAgents}

\* ORDER BY x DESC on one key: PostgreSQL sorts NULL as larger than every
\* value, so NULLs come first
SortsBeforeDesc(x, y) ==
    IF x = SqlNull THEN y # SqlNull
    ELSE y # SqlNull /\ x > y

\* order_by(desc(current_quality_score), desc(calls_handled_total)): row a
\* may stand immediately before row b
MayPrecede(a, b) ==
    \/ SortsBeforeDesc(a.current_quality_score, b.current_quality_score)
    \/ /\ a.current_quality_score = b.current_quality_score
       /\ ~SortsBeforeDesc(b.calls_handled_total, a.calls_handled_total)

\* the orders in which the query may return the rows of a table
QueryOrders(table) ==
    LET n == Len(table) IN
    {p \in [1..n -> 1..n] :
        /\ \A i, j \in 1..n : i # j => p[i] # p[j]
        /\ \A i \in 1..(n - 1) : MayPrecede(table[p[i]], table[p[i + 1]])}

\* lines 37-45: one entry of the data list
BoardEntry(index, agent_id, agent) ==
    [rank |-> index,
     agent_id |-> agent_id,
     overall_score |-> IF agent.current_quality_score # SqlNull
                       THEN agent.current_quality_score ELSE 0,
     calls_received |-> IF agent.calls_handled_total # SqlNull
                        THEN agent.calls_handled_total ELSE 0]

NotQueried == <<>>

get_agent_leaderboard_data ==
    /\ board = NotQueried
    /\ \E p \in QueryOrders(agentsTable) :
          board' = [i \in 1..Len(agentsTable) |->
                        BoardEntry(i, p[i], agentsTable[p[i]])]
    /\ UNCHANGED <<callVars, normVars, ingestVars, extraVars, agentsTable,
                   clock, events, apiKey,
                   calls, agentRow, sess, cityRow, csess, mpc, mcur, mreply,
                   mres>>

-----------------------------------------------------------------------------
(* The environment *)

\* time passes
Tick(d) ==
    /\ events < MaxEvents
    /\ events' = events + 1
    /\ clock' = clock + d
    /\ UNCHANGED <<laterVars, apiKey, calls, agentRow, sess, cityRow, csess,
                   mpc, mcur, mreply, mres>>

\* call_engestion.py ingest_call, step 6: a call row stamped datetime.now(),
\* with processing_status 'pending'
IngestCall(a, cid, coaching) ==
    /\ events < MaxEvents
    /\ events' = events + 1
    /\ calls' = calls \cup {[id |-> Cardinality(calls) + 1, agent |-> a,
                             city |-> cid, ts |-> clock, coaching |-> coaching]}
    /\ callStatus' = callStatus @@ (NewCallId :> "pending")
    /\ insights' = insights @@ (NewCallId :> NoInsight)
    /\ UNCHANGED <<normVars, boardVars, extraVars, ingestVars,
                   psess, clock, apiKey, agentRow, sess,
                   cityRow, csess, mpc, mcur, mreply, mres>>

-----------------------------------------------------------------------------
(* Parts of the state a specification leaves alone *)

AgentIdle ==
    /\ agentRow = AgentRow0
    /\ sess = [s \in Sessions |-> IdleSess]

CityIdle ==
    /\ cityRow = NoCityRow
    /\ csess = [s \in Sessions |-> IdleCitySess]

MergeIdle ==
    /\ mpc = "off"
    /\ mcur = None
    /\ mreply = FailReply
    /\ mres = Returned(None, None)

CallIdle ==
    /\ callStatus = <<>>
    /\ insights = <<>>
    /\ psess = IdleProcess

NormIdle ==
    /\ nin = NoScores
    /\ nout = NotAssigned

BoardIdle ==
    /\ agentsTable = <<>>
    /\ board = NotQueried

IngestIdle == ireq = NoRequest

\* the rows of the other agent and of the other city: as inserted, or after
\* a refresh of their own
NoOthers == [agent |-> AgentRow0, city |-> NoCityRow]

OthersRows ==
    {[agent |-> AgentRow0, city |-> NoCityRow],
     [agent |-> [AgentRow0 EXCEPT !.latest_month_insight = <<"m0">>,
                                  !.overall_insight_text = <<"o0">>,
                                  !.last_insight_generated_at = 0],
      city |-> [NewCityRow EXCEPT !.latest_month_insight = <<"m0">>,
                                  !.overall_city_insight = <<"o0">>,
                                  !.last_insight_generated_at = 0]]}

\* no window fetched yet, no prompt built yet
NoWindow == [who |-> "none", rows |-> <<>>, today_from |-> 0]

NotBuilt == [builder |-> "none", rows |-> <<>>]

FrameIdle == others = NoOthers

PromptIdle ==
    /\ pwin = NoWindow
    /\ pused = NotBuilt

ExtraIdle ==
    /\ FrameIdle
    /\ PromptIdle

LaterIdle ==
    /\ CallIdle
    /\ NormIdle
    /\ BoardIdle
    /\ IngestIdle
    /\ ExtraIdle

EnvInit ==
    /\ clock = 0
    /\ events = 0
    /\ apiKey \in BOOLEAN
    /\ calls = {}

-----------------------------------------------------------------------------
(* The agent refresh: two sessions refreshing one agent *)

AgentDeltas == {5, 55, MonthLen}

AgentInit ==
    /\ EnvInit
    /\ AgentIdle
    /\ CityIdle
    /\ MergeIdle
    /\ LaterIdle

AgentSteps(S) ==
    \/ \E s \in S, id \in AgentIds \cup {MissingAgentId} : AgentLoad(s, id)
    \/ \E s \in S : AgentFetch(s)
    \/ \E s \in S, r1 \in MonthlyReplies, r2 \in MergeReplies :
            AgentGenerate(s, r1, r2)
    \/ \E s \in S : AgentCommit(s)
    \/ \E s \in S : AgentReturn(s)
    \/ \E s \in S : AgentRaise(s)
    \/ \E s \in S : AgentClose(s)

\* one request at a time
AgentNext ==
    \/ AgentSteps({1})
    \/ \E d \in AgentDeltas : Tick(d)
    \/ \E a \in AgentIds : IngestCall(a, "c1", FALSE)

\* two requests for the same agent, each with a session of its own
AgentRaceNext ==
    \/ AgentSteps(Sessions)
    \/ \E a \in AgentIds : IngestCall(a, "c1", FALSE)

SpecAgent == AgentInit /\ [][AgentNext]_vars

-----------------------------------------------------------------------------
(* The city refresh: one request at a time *)

CityDeltas == {5, 55, MonthLen, YearLen}

CityInit ==
    /\ EnvInit
    /\ AgentIdle
    /\ CityIdle
    /\ MergeIdle
    /\ LaterIdle

CitySteps(S) ==
    \/ \E s \in S, id \in CityIds \cup {MissingCityId} : CityLoad(s, id)
    \/ \E s \in S : CityFetch(s)
    \/ \E s \in S, rd \in DailyReplies, rm \in CityMonthlyReplies,
          ro \in OverallReplies, rk \in CoachingReplies :
            CityGenerate(s, rd, rm, ro, rk)
    \/ \E s \in S : CityCommit(s)
    \/ \E s \in S : CityReturn(s)
    \/ \E s \in S : CityRaise(s)
    \/ \E s \in S : CityClose(s)

CityNext ==
    \/ CitySteps({1})
    \/ \E d \in CityDeltas : Tick(d)
    \/ \E a \in AgentIds, k \in BOOLEAN : IngestCall(a, "c1", k)

SpecCity == CityInit /\ [][CityNext]_vars

\* two requests for the same city, each with a session of its own
CityRaceNext ==
    \/ CitySteps(Sessions)
    \/ \E s \in Sessions : CityFlush(s)

SpecCityRace == CityInit /\ [][CityRaceNext]_vars

-----------------------------------------------------------------------------
(* The merge alone: update_overall_insight on every short answer *)

MergeCurrents == {None, <<>>, <<"h">>}

\* answers longer than MaxRespLen: a well-formed one, and one without
\* [OVERALL_END]
SampleContents ==
    {<<WS, OVERALL_START, WS, "o", WS, OVERALL_END, WS,
       CHANGE_START, WS, "c", WS, CHANGE_END, WS>>,
     <<OVERALL_START, WS, "o", WS, CHANGE_START, WS, "c", WS, CHANGE_END>>}

MergeInit ==
    /\ EnvInit
    /\ AgentIdle
    /\ CityIdle
    /\ mpc = "call"
    /\ mcur \in MergeCurrents
    /\ mreply \in {FailReply}
                  \cup {OkReply(c) : c \in SeqsUpTo(Tokens, MaxRespLen)
                                          \cup SampleContents}
    /\ mres = Returned(None, None)
    /\ LaterIdle

\* updated_overall, change_summary = update_overall_insight(current, monthly)
MergeCall ==
    /\ mpc = "call"
    /\ mpc' = "done"
    /\ mres' = update_overall_insight(mcur, <<"m">>,
                                      get_llm_response(apiKey, mreply))
    /\ UNCHANGED <<laterVars, clock, events, apiKey, calls, agentRow, sess, cityRow,
                   csess, mcur, mreply>>

MergeNext == MergeCall

SpecMerge == MergeInit /\ [][MergeNext]_vars

SpecAgentRace == AgentInit /\ [][AgentRaceNext]_vars

-----------------------------------------------------------------------------
(* Call processing: one request at a time on a table that holds one call    *)
(* analysed earlier (with its call_insights row) or one transcribed call    *)

SeedCall == [id |-> 1, agent |-> "a1", city |-> "c1", ts |-> 0, coaching |-> FALSE]

SeedInsights ==
    {[NewInsight EXCEPT !.escalation_risk = TRUE, !.why_flagged = <<"r0">>,
                        !.sentiment_stabilization_score = 500,
                        !.resolution_path_validity_score = 750,
                        !.business_insight = <<"b0">>],
     [NewInsight EXCEPT !.sentiment_stabilization_score = 0,
                        !.resolution_path_validity_score = 0]}

CallInit ==
    /\ clock = 0
    /\ events = 0
    /\ apiKey = FALSE
    /\ calls = {SeedCall}
    /\ \/ /\ callStatus = (1 :> "analyzed")
          /\ \E row \in SeedInsights : insights = (1 :> row)
       \/ /\ callStatus = (1 :> "transcribed")
          /\ insights = (1 :> NoInsight)
    /\ psess = IdleProcess
    /\ AgentIdle
    /\ CityIdle
    /\ MergeIdle
    /\ NormIdle
    /\ BoardIdle
    /\ IngestIdle
    /\ ExtraIdle

CallNext ==
    \/ \E a \in AgentIds : IngestCallEndpoint(TRUE, a, "c1", 90)
    \/ \E a \in AgentIds : ingest_call(a, "c1", 90)
    \/ \E k \in DOMAIN callStatus \cup {NoCall} : TriggerProcess(k)
    \/ \E answer \in Answers : ProcessPost(answer)
    \/ ProcessCommit
    \/ ProcessClose

SpecCall == CallInit /\ [][CallNext]_vars

\* scores objects: one key or both absent, or both carrying the same number
ScoresObjects ==
    {[sentiment_stabilization |-> x, resolution_validity |-> x] :
        x \in ScoreInputs}
    \cup {[sentiment_stabilization |-> x, resolution_validity |-> NoScore] :
            x \in ScoreInputs}
    \cup {[sentiment_stabilization |-> NoScore, resolution_validity |-> x] :
            x \in ScoreInputs}

NormInit ==
    /\ EnvInit
    /\ AgentIdle
    /\ CityIdle
    /\ MergeIdle
    /\ CallIdle
    /\ BoardIdle
    /\ IngestIdle
    /\ ExtraIdle
    /\ nin \in ScoresObjects
    /\ nout = NotAssigned

NormNext == AssignScores

SpecNormalize == NormInit /\ [][NormNext]_vars

BoardInit ==
    /\ EnvInit
    /\ AgentIdle
    /\ CityIdle
    /\ MergeIdle
    /\ CallIdle
    /\ NormIdle
    /\ IngestIdle
    /\ ExtraIdle
    /\ agentsTable \in BoardTables
    /\ board = NotQueried

BoardNext == get_agent_leaderboard_data

SpecBoard == BoardInit /\ [][BoardNext]_vars

-----------------------------------------------------------------------------
(* Refreshes of agent a1 and of city c1 beside another agent and another    *)
(* city, whose calls are in the same table                                  *)

FrameInit ==
    /\ EnvInit
    /\ AgentIdle
    /\ CityIdle
    /\ MergeIdle
    /\ CallIdle
    /\ NormIdle
    /\ BoardIdle
    /\ IngestIdle
    /\ PromptIdle
    /\ others \in OthersRows

FrameNext ==
    \/ AgentSteps({1})
    \/ CitySteps({1})
    \/ \E a \in AgentIds \cup {OtherAgentId}, c \in CityIds \cup {OtherCityId} :
          IngestCall(a, c, FALSE)

SpecFrame == FrameInit /\ [][FrameNext]_vars

-----------------------------------------------------------------------------
(* The prompt builders of insights.py and citylevel_insights.py: the rows   *)
(* of a window as the query returns them, and the rows a prompt lists       *)

\* calls_data[:50], daily_calls_data[:50], month_calls_data[:50],
\* coaching_extracts[:50]
PromptCap == 50

MaxWindow == 60

\* every how-manieth call of a window has no coaching insight (0: none lacks)
CoachingGaps == {0, 10}

\* where today starts within a window whose timestamps are 1..n
TodayStarts == {1, 5}

\* the calls of a window, oldest first: timestamps 1..n
WindowRows(n, gap) ==
    [i \in 1..n |-> [ts |-> i, coaching |-> (gap = 0 \/ i % gap # 0)]]

\* ORDER BY call_timestamp DESC
OrderByTimestampDesc(rows) ==
    [i \in 1..Len(rows) |-> rows[Len(rows) + 1 - i]]

\* a scan that starts at row k + 1 of the table and wraps around
ScanFrom(rows, k) ==
    [i \in 1..Len(rows) |-> rows[((i - 1 + k) % Len(rows)) + 1]]

\* the results a query without ORDER BY can return: the order is the
\* database's choice
Unordered(rows) ==
    {ScanFrom(rows, k) : k \in 0..(Len(rows) - 1)}
        \cup {OrderByTimestampDesc(rows)}

\* xs[:50]
first_50(xs) ==
    SubSeq(xs, 1, IF Len(xs) < PromptCap THEN Len(xs) ELSE PromptCap)

\* [c for c in xs if keep(c)], for the two filters of the city refresh
RECURSIVE keep_today(_, _)
keep_today(xs, from) ==
    IF xs = <<>> THEN <<>>
    ELSE IF Head(xs).ts >= from
         THEN <<Head(xs)>> \o keep_today(Tail(xs), from)
         ELSE keep_today(Tail(xs), from)

RECURSIVE keep_coaching(_)
keep_coaching(xs) ==
    IF xs = <<>> THEN <<>>
    ELSE IF Head(xs).coaching
         THEN <<Head(xs)>> \o keep_coaching(Tail(xs))
         ELSE keep_coaching(Tail(xs))

\* the rows a prompt lists; no prompt is built from an empty list
Built(builder, xs) ==
    IF xs = <<>> THEN NotBuilt
    ELSE [builder |-> builder, rows |-> first_50(xs)]

PromptRest ==
    <<callVars, normVars, boardVars, ingestVars, frameVars, clock, events,
      apiKey, calls, agentRow, sess, cityRow, csess, mpc, mcur, mreply, mres>>

\* insights.py lines 182-185: the agent's 30-day window, not ordered; a
\* request fetches its window once
AgentWindowQuery(n, gap) ==
    /\ pwin = NoWindow
    /\ \E rows \in Unordered(WindowRows(n, gap)) :
          pwin' = [who |-> "agent", rows |-> rows, today_from |-> 0]
    /\ pused' = NotBuilt
    /\ UNCHANGED PromptRest

\* citylevel_insights.py lines 229-232: the city's 30-day window, newest
\* first
CityWindowQuery(n, gap, today_from) ==
    /\ pwin = NoWindow
    /\ pwin' = [who |-> "city",
                rows |-> OrderByTimestampDesc(WindowRows(n, gap)),
                today_from |-> today_from]
    /\ pused' = NotBuilt
    /\ UNCHANGED PromptRest

AgentMonthlyPrompt ==
    /\ pwin.who = "agent"
    /\ pused' = Built("agent_monthly", pwin.rows)
    /\ UNCHANGED <<pwin, PromptRest>>

CityDailyOpsPrompt ==
    /\ pwin.who = "city"
    /\ pused' = Built("city_daily_ops", keep_today(pwin.rows, pwin.today_from))
    /\ UNCHANGED <<pwin, PromptRest>>

CityMonthlyPrompt ==
    /\ pwin.who = "city"
    /\ pused' = Built("city_monthly", pwin.rows)
    /\ UNCHANGED <<pwin, PromptRest>>

CityCoachingPrompt ==
    /\ pwin.who = "city"
    /\ pused' = Built("city_coaching", keep_coaching(pwin.rows))
    /\ UNCHANGED <<pwin, PromptRest>>

PromptInit ==
    /\ EnvInit
    /\ AgentIdle
    /\ CityIdle
    /\ MergeIdle
    /\ CallIdle
    /\ NormIdle
    /\ BoardIdle
    /\ IngestIdle
    /\ FrameIdle
    /\ PromptIdle

PromptNext ==
    \/ \E n \in 0..MaxWindow, gap \in CoachingGaps : AgentWindowQuery(n, gap)
    \/ \E n \in 0..MaxWindow, gap \in CoachingGaps, t \in TodayStarts :
          CityWindowQuery(n, gap, t)
    \/ AgentMonthlyPrompt
    \/ CityDailyOpsPrompt
    \/ CityMonthlyPrompt
    \/ CityCoachingPrompt

SpecPrompt == PromptInit /\ [][PromptNext]_vars

-----------------------------------------------------------------------------
(* Ingestion: requests to POST /ingest/call and runs of ingest_call *)

IngestInit ==
    /\ EnvInit
    /\ AgentIdle
    /\ CityIdle
    /\ MergeIdle
    /\ LaterIdle

IngestNext ==
    \/ \E is_mp3 \in BOOLEAN, a \in AgentIdentifiers, c \in CityIdentifiers,
          length \in ProbedLengths : IngestCallEndpoint(is_mp3, a, c, length)
    \/ \E a \in AgentIdentifiers, c \in CityIdentifiers, d \in DurationInputs :
          ingest_call(a, c, d)

SpecIngest == IngestInit /\ [][IngestNext]_vars

-----------------------------------------------------------------------------
(* Properties of the agent refresh *)

\* the refresh of session s found the agent, and its staleness clock was less
\* than one hour old
AgentFreshAtLoad(s) ==
    /\ sess[s].pc # "idle"
    /\ sess[s].agent \in AgentIds
    /\ sess[s].loaded.last_insight_generated_at # NoTime
    /\ sess[s].now - sess[s].loaded.last_insight_generated_at < OneHour

\* session s answered from the cache: the stored fields, no write, no request
AgentServedCached(s) ==
    /\ sess[s].pc = "done"
    /\ sess[s].result = SuccessResult("cache",
                            sess[s].loaded.latest_month_insight,
                            sess[s].loaded.overall_insight_text,
                            sess[s].loaded.latest_change_summary)
    /\ sess[s].requests = 0
    /\ ~sess[s].wrote
    /\ sess[s].obj = sess[s].loaded

\* C1 (as claimed): two concurrent refreshes of one agent are serialized: no
\* two sessions read the same version of the row and each commit a merged
\* overall narrative of their own, the later commit overwriting the earlier.
C1_NoLostUpdate ==
    \A s, t \in Sessions :
        (/\ s # t
         /\ sess[s].stamp /\ sess[s].wrote /\ ~sess[s].failed
         /\ sess[t].stamp /\ sess[t].wrote /\ ~sess[t].failed
         /\ sess[s].loaded.version = sess[t].loaded.version)
        => sess[s].obj.overall_insight_text = sess[t].obj.overall_insight_text

\* C2 (as claimed): a staleness clock less than an hour old and no call in the
\* last ten minutes: the refresh returns the stored fields, writes nothing and
\* posts no request, whatever the stored narratives are.
C2_CachedWhateverStored ==
    \A s \in Sessions :
        (AgentFreshAtLoad(s) /\ ~sess[s].recent) => AgentServedCached(s)

\* C2 (amended): the same, provided the stored latest_month_insight is not
\* empty.
C2_CachedWhenMonthlyStored ==
    \A s \in Sessions :
        (/\ AgentFreshAtLoad(s)
         /\ ~sess[s].recent
         /\ Truthy(sess[s].loaded.latest_month_insight))
        => AgentServedCached(s)

C2_Witness ==
    \E s \in Sessions :
        /\ AgentFreshAtLoad(s)
        /\ ~sess[s].recent
        /\ Truthy(sess[s].loaded.latest_month_insight)
        /\ sess[s].now > sess[s].loaded.last_insight_generated_at
        /\ AgentServedCached(s)

\* C3 (as claimed): a staleness clock less than an hour old but a call in the
\* last ten minutes: the cache is not served, and a refresh that succeeds has
\* posted at least one request.
C3_RecentCallForcesRefresh ==
    \A s \in Sessions :
        (AgentFreshAtLoad(s) /\ sess[s].recent /\ apiKey)
        => /\ sess[s].result.message # "cache"
           /\ (sess[s].pc = "done" /\ sess[s].result.status = "success")
                => sess[s].requests >= 1

\* C6 (as claimed): when the merge request fails, update_overall_insight
\* returns the overall narrative it was passed and the failure sentinel, so
\* the overall_insight_text the refresh commits is the one stored before.
C6_FailedMergeKeepsOverall ==
    \A s \in Sessions :
        (sess[s].pc = "return" /\ sess[s].stamp /\ sess[s].failed)
        => /\ sess[s].obj.latest_change_summary = CouldNotGenerate
           /\ sess[s].obj.overall_insight_text = sess[s].loaded.overall_insight_text
           /\ agentRow.overall_insight_text = sess[s].loaded.overall_insight_text

\* C8 (as claimed): a refresh that ends with an exception after the cache
\* decision reports status error and has persisted nothing.
C8_ExceptionPersistsNothing ==
    \A s \in Sessions :
        (sess[s].pc = "done" /\ sess[s].result.message = "exception")
        => /\ sess[s].result.status = "error"
           /\ ~sess[s].wrote
           /\ agentRow = sess[s].loaded

-----------------------------------------------------------------------------
(* Properties of the city refresh *)

\* the refresh of session s found the city and its CityInsight row
CityRowAtLoad(s) ==
    /\ csess[s].pc # "idle"
    /\ csess[s].city \in CityIds
    /\ csess[s].loaded.exists
    /\ ~csess[s].created

\* (now - last_insight_generated_at) < 1 hour, on what the session loaded
CityFreshAtLoad(s) ==
    /\ csess[s].loaded.last_insight_generated_at # NoTime
    /\ csess[s].now - csess[s].loaded.last_insight_generated_at < OneHour

\* session s answered from the cache: the four stored fields, no write, no
\* request
CityServedCached(s) ==
    /\ csess[s].pc = "done"
    /\ csess[s].result = CitySuccessResult("cache", csess[s].loaded)
    /\ csess[s].requests = 0
    /\ ~csess[s].wrote
    /\ csess[s].obj = csess[s].loaded
    /\ cityRow = csess[s].loaded

\* C4: with a CityInsight row, the refresh answers from the cache exactly when
\* the staleness clock is less than an hour old and the city has no call of
\* the last ten minutes; otherwise it goes on to regenerate.
C4_CityCacheDecision ==
    \A s \in Sessions :
        CityRowAtLoad(s) =>
            IF CityFreshAtLoad(s) /\ ~csess[s].recent
            THEN CityServedCached(s)
            ELSE /\ csess[s].result.message # "cache"
                 /\ csess[s].pc = "done"
                      => csess[s].result.message \in {"updated", "exception"}
                 /\ (csess[s].pc = "done" /\ csess[s].result.message = "updated")
                      => csess[s].obj.last_insight_generated_at >= csess[s].now

C4_Witness ==
    \E s \in Sessions :
        /\ CityRowAtLoad(s)
        /\ CityFreshAtLoad(s)
        /\ ~csess[s].recent
        /\ csess[s].now > csess[s].loaded.last_insight_generated_at
        /\ CityCallsSince(csess[s].city, 0) # {}
        /\ CityServedCached(s)

\* the last generation the session loaded lies in the calendar month and year
\* of the refresh
CitySameMonthAtLoad(s) ==
    /\ CityRowAtLoad(s)
    /\ csess[s].loaded.last_insight_generated_at # NoTime
    /\ Month(csess[s].loaded.last_insight_generated_at) = Month(csess[s].now)
    /\ Year(csess[s].loaded.last_insight_generated_at) = Year(csess[s].now)

\* the refresh of session s kept the coaching focus it loaded and asked for none
CityCoachingKept(s) ==
    /\ csess[s].obj.coaching_focus_for_city = csess[s].loaded.coaching_focus_for_city
    /\ ~csess[s].coaching_requested
    /\ cityRow.coaching_focus_for_city = csess[s].loaded.coaching_focus_for_city

\* C5 (as claimed): a last generation in the current calendar month: any
\* refresh leaves the stored coaching focus as it was and asks for none.
C5_CoachingKeptInMonth ==
    \A s \in Sessions : CitySameMonthAtLoad(s) => CityCoachingKept(s)

\* C5 (amended): the same, provided the stored coaching focus is not empty.
C5_StoredCoachingKeptInMonth ==
    \A s \in Sessions :
        (CitySameMonthAtLoad(s) /\ Truthy(csess[s].loaded.coaching_focus_for_city))
        => CityCoachingKept(s)

\* a refresh in the month of the last generation that regenerated the other
\* narratives and kept the coaching focus
C5_Witness ==
    \E s \in Sessions :
        /\ CitySameMonthAtLoad(s)
        /\ Truthy(csess[s].loaded.coaching_focus_for_city)
        /\ csess[s].pc = "done"
        /\ csess[s].result.message = "updated"
        /\ csess[s].wrote
        /\ csess[s].has_coaching
        /\ csess[s].obj.overall_city_insight # csess[s].loaded.overall_city_insight
        /\ CityCoachingKept(s)

\* C7 (as claimed, for the cumulative overall narrative): a city refresh whose
\* overall request yields None commits the overall_city_insight that was
\* stored before the refresh.
C7_FailedRequestKeepsOverall ==
    \A s \in Sessions :
        (csess[s].pc = "return" /\ CityRowAtLoad(s) /\ csess[s].overall_failed)
        => cityRow.overall_city_insight = csess[s].loaded.overall_city_insight

-----------------------------------------------------------------------------
(* Properties of the merge *)

\* what get_llm_response handed to update_overall_insight
MergeResponse == get_llm_response(apiKey, mreply)

\* C9: an answer with none of the four markers comes back whole as the
\* updated overall narrative, with the fixed change summary, and nothing is
\* raised.
C9_NoMarkersReturnsRaw ==
    (/\ mpc = "done"
     /\ Truthy(MergeResponse)
     /\ \A m \in Markers : ~Contains(MergeResponse, m))
    => mres = Returned(MergeResponse, ErrorParsing)

C9_Witness ==
    /\ mpc = "done"
    /\ Len(MergeResponse) >= 2
    /\ MergeResponse # mreply.content
    /\ \A m \in Markers : ~Contains(MergeResponse, m)
    /\ mres = Returned(MergeResponse, ErrorParsing)

\* C10 (as claimed): an answer that lacks any one of the four markers comes
\* back whole as the updated overall narrative, with the fixed change summary.
C10_MissingMarkerReturnsRaw ==
    (/\ mpc = "done"
     /\ Truthy(MergeResponse)
     /\ \E m \in Markers : ~Contains(MergeResponse, m))
    => mres = Returned(MergeResponse, ErrorParsing)

-----------------------------------------------------------------------------
(* Properties of the zero-call refreshes *)

\* the 30-day query of the city refresh of session s found no call
CityZeroCalls(s) ==
    /\ csess[s].pc \in {"commit", "return"}
    /\ \A c \in calls :
          c.city = csess[s].city => c.ts < csess[s].now - ThirtyDays

\* C11 (as claimed): a city refresh that regenerates with no call in the last
\* 30 days sets the daily, monthly and coaching narratives to their
\* placeholders and posts no text-generation request at all.
C11_ZeroCallsCityNoRequest ==
    \A s \in Sessions :
        CityZeroCalls(s)
        => /\ csess[s].obj.daily_ops_insight = NoCallsToday
           /\ csess[s].obj.latest_month_insight = NoCalls30Days
           /\ csess[s].obj.coaching_focus_for_city = NoCoachingData
           /\ csess[s].requests = 0

\* the agent refresh of session s went past the cache and no call of its agent
\* lies in the 30 days before the refresh
AgentZeroCalls(s) ==
    /\ sess[s].pc \in {"commit", "return"}
    /\ \A c \in calls :
          c.agent = sess[s].agent => c.ts < sess[s].now - ThirtyDays

\* C12: an agent refresh that goes past the cache with no call in the last 30
\* days posts no text-generation request, sets latest_month_insight and
\* latest_change_summary to the fixed placeholders, and leaves
\* overall_insight_text (and the staleness clock) as loaded; the commit
\* stores exactly that.
C12_ZeroCallsAgentPlaceholders ==
    \A s \in Sessions :
        AgentZeroCalls(s)
        => /\ sess[s].requests = 0
           /\ sess[s].obj.latest_month_insight = NoCallsMonth
           /\ sess[s].obj.latest_change_summary = NoActivity
           /\ sess[s].obj.overall_insight_text = sess[s].loaded.overall_insight_text
           /\ sess[s].obj.last_insight_generated_at
                 = sess[s].loaded.last_insight_generated_at
           /\ sess[s].pc = "return"
                 => /\ agentRow.latest_month_insight = NoCallsMonth
                    /\ agentRow.latest_change_summary = NoActivity
                    /\ agentRow.overall_insight_text
                          = sess[s].loaded.overall_insight_text

\* an agent with a stored overall narrative and calls, all older than 30
\* days, whose refresh committed the placeholders
C12_Witness ==
    \E s \in Sessions :
        /\ AgentZeroCalls(s)
        /\ sess[s].pc = "return"
        /\ apiKey
        /\ \E c \in calls : c.agent = sess[s].agent
        /\ Truthy(sess[s].loaded.overall_insight_text)
        /\ sess[s].wrote
        /\ agentRow.latest_month_insight = NoCallsMonth
        /\ agentRow.overall_insight_text = sess[s].loaded.overall_insight_text

-----------------------------------------------------------------------------
(* Properties of call processing *)

\* C13: every persisted call_insights row has escalation_risk set exactly
\* when why_flagged is neither NULL nor empty, and so has every row that
\* process_call_for_ai_evaluation is about to commit.
C13_EscalationIffReason ==
    /\ \A k \in DOMAIN insights :
          insights[k].exists
          => (insights[k].escalation_risk <=> Truthy(insights[k].why_flagged))
    /\ (psess.pc = "commit" /\ psess.answer.code = 200)
          => (psess.obj.escalation_risk <=> Truthy(psess.obj.why_flagged))

\* a call re-processed with an analysis that sets the flag and carries
\* neither why_flagged nor business_insight: the stored row, not flagged
\* before, now has the flag and the default reason
C13_Witness ==
    /\ psess.pc = "done"
    /\ psess.result.status = "success"
    /\ psess.loaded.exists
    /\ ~psess.loaded.escalation_risk
    /\ insights[psess.call].escalation_risk
    /\ insights[psess.call].why_flagged = DefaultReason

\* C14 (as claimed): processing_status only ever moves pending->transcribed,
\* transcribed->analyzed, pending->analyzed or to failed.
C14_ForwardOnly ==
    [][\A k \in DOMAIN callStatus :
          callStatus'[k] # callStatus[k]
          => \/ callStatus'[k] = "failed"
             \/ <<callStatus[k], callStatus'[k]>>
                   \in {<<"pending", "transcribed">>,
                        <<"transcribed", "analyzed">>,
                        <<"pending", "analyzed">>}]_vars

\* C15 (as claimed): when POST /ingest/call has answered a request that
\* names a known agent and a known city, the request succeeded and the call
\* it created is stored as analyzed or as failed.
C15_IngestEndsAnalyzedOrFailed ==
    (/\ ireq.via = "endpoint"
     /\ ireq.outcome # "HTTPException"
     /\ validate_and_get_agent_id(ireq.agent_identifier) # NoAgent
     /\ ireq.city_identifier \in CITIES_MAP)
    => /\ ireq.http = 200
       /\ ireq.call \in DOMAIN callStatus
       /\ callStatus[ireq.call] \in {"analyzed", "failed"}

\* C16 (as claimed): when the processing of a pending call has ended without
\* a successful analysis, the stored processing_status is failed.
C16_FailureRecorded ==
    (/\ psess.pc = "done"
     /\ psess.call # NoCall
     /\ psess.status_before = "pending"
     /\ psess.result.status # "success")
    => callStatus[psess.call] = "failed"

-----------------------------------------------------------------------------
(* Properties of the normalizers *)

\* C18: a raw sentiment score in [0,1] goes to 0 below 0.25, to 0.5 from 0.25
\* to below 0.75 and to 1 from 0.75 on; the value assigned to
\* sentiment_stabilization_score is always one of 0, 0.5, 1.
C18_SentimentBuckets ==
    nout.assigned
    => LET x == ScoreGet(nin.sentiment_stabilization)
           y == nout.sentiment_stabilization_score
       IN /\ y \in {0, 500, 1000}
          /\ (0 <= x /\ x < 250) => y = 0
          /\ (250 <= x /\ x < 750) => y = 500
          /\ (750 <= x /\ x <= 1000) => y = 1000

\* the boundary 0.25 goes to the upper bucket
C18_Witness ==
    /\ nout.assigned
    /\ nin.sentiment_stabilization = <<250>>
    /\ nout.sentiment_stabilization_score = 500

-----------------------------------------------------------------------------
(* Properties of the leaderboard *)

\* C17 (as claimed): the leaderboard lists every agent exactly once with
\* ranks 1..n, and of two adjacent entries the earlier one has the higher
\* score, or the same score and a calls total that is not lower.
C17_LeaderboardOrdered ==
    board # NotQueried
    => /\ Len(board) = Len(agentsTable)
       /\ \A a \in DOMAIN agentsTable :
             Cardinality({i \in DOMAIN board : board[i].agent_id = a}) = 1
       /\ \A i \in DOMAIN board : board[i].rank = i
       /\ \A i \in 1..(Len(board) - 1) :
             \/ board[i].overall_score > board[i + 1].overall_score
             \/ /\ board[i].overall_score = board[i + 1].overall_score
                /\ board[i].calls_received >= board[i + 1].calls_received

-----------------------------------------------------------------------------
(* Properties of the generate-insights endpoint *)

\* C20 (as claimed): POST /api/agents/{agent_id}/generate-insights answers
\* 404 only when the agent was not found.
C20_NotFoundOnlyWhenMissing ==
    \A s \in Sessions :
        (sess[s].pc = "done" /\ generate_agent_insights(sess[s].result) = 404)
        => sess[s].result.message = "not found"

-----------------------------------------------------------------------------
(* Properties of ingestion *)

\* C21 (as claimed): a request to POST /ingest/call whose agent or city
\* cannot be resolved is answered 400 and stores no call; and a call that an
\* ingestion stores is stored under the agent and the city its caller named.
C21_UnresolvableRejected ==
    /\ (/\ ireq.via = "endpoint"
        /\ ireq.outcome # "HTTPException"
        /\ \/ validate_and_get_agent_id(ireq.agent_identifier) = NoAgent
           \/ ireq.city_identifier \notin CITIES_MAP)
       => (ireq.http = 400 /\ ireq.outcome # "stored")
    /\ ireq.outcome = "stored"
       => \E c \in calls :
             /\ c.id = ireq.call
             /\ c.agent = validate_and_get_agent_id(ireq.agent_identifier)
             /\ c.city = ireq.city_identifier

\* C22 (as claimed): when the duration probe of POST /ingest/call fails, the
\* request succeeds and the call it stores has duration_seconds 0.
C22_ProbeFailureStoresZero ==
    (ireq.via = "endpoint" /\ ireq.duration_seconds = 0)
    => /\ ireq.http = 200
       /\ ireq.outcome = "stored"
       /\ ireq.duration_stored = 0

-----------------------------------------------------------------------------
(* Properties of concurrent city refreshes *)

\* C23 (as claimed): a refresh that found no CityInsight row for its city and
\* met no database failure ends with status success, and the row exists
\* afterwards; also when two such refreshes run at the same time.
C23_FirstRefreshCreates ==
    \A s \in Sessions :
        (/\ csess[s].pc = "done"
         /\ csess[s].created
         /\ csess[s].result.message # "exception")
        => /\ csess[s].result.status = "success"
           /\ cityRow.exists

-----------------------------------------------------------------------------
(* Properties of the staleness clock *)

\* C24 (as claimed): an agent refresh that was not served from cache and
\* ended with status success has stored a staleness clock taken during the
\* refresh, and a refresh at that very time would be served from cache.
C24_SuccessStampsAndCaches ==
    \A s \in Sessions :
        (/\ sess[s].pc = "done"
         /\ sess[s].result.status = "success"
         /\ sess[s].result.message # "cache")
        => /\ agentRow.last_insight_generated_at >= sess[s].now
           /\ AgentCacheHit(agentRow, agentRow.last_insight_generated_at)

-----------------------------------------------------------------------------
(* Properties of the order of the text-generation calls *)

-----------------------------------------------------------------------------
(* Properties of refreshes beside other entities *)

-----------------------------------------------------------------------------
(* Properties of the prompt builders *)

\* the elements of a list
Range(xs) == {xs[i] : i \in 1..Len(xs)}

\* the rows of the window a builder may list: all of them, today's, or
\* those with a coaching insight
Eligible(builder) ==
    CASE builder = "city_daily_ops" ->
            {r \in Range(pwin.rows) : r.ts >= pwin.today_from}
      [] builder = "city_coaching" -> {r \in Range(pwin.rows) : r.coaching}
      [] OTHER -> Range(pwin.rows)

\* C27: every period-summary prompt lists at most 50 records, and when the
\* window holds more than 50 the records listed are the 50 most recent by
\* call timestamp.
C27_FiftyMostRecent ==
    pused.builder # "none" =>
        /\ Len(pused.rows) <= PromptCap
        /\ Cardinality(Eligible(pused.builder)) > PromptCap =>
              /\ Len(pused.rows) = PromptCap
              /\ \A u \in Range(pused.rows) :
                    \A r \in Eligible(pused.builder) \ Range(pused.rows) :
                        u.ts > r.ts

\* the same for the three prompts of the city refresh alone
C27_CityFiftyMostRecent ==
    pused.builder # "agent_monthly" => C27_FiftyMostRecent

-----------------------------------------------------------------------------
(* Properties of the second cache check of the city refresh *)

\* C28: with a single request at work, a city refresh that went past its
\* first cache check and fetched the window is never answered from the
\* cache by the second check, and a refresh answered from the cache has
\* fetched no window.
C28_SecondCheckNeverCaches ==
    \A s \in Sessions :
        csess[s].windowed => csess[s].result.message # "cache"

\* a refresh past the second check with a stored record younger than an
\* hour, let through by a recent call, ten minutes and more after its entry
C28_Witness ==
    /\ csess[1].windowed
    /\ csess[1].pc = "generate"
    /\ ~csess[1].created
    /\ CityCacheFresh(csess[1].obj, csess[1].now)
    /\ csess[1].recent
    /\ clock >= csess[1].now + TenMinutes + 1

-----------------------------------------------------------------------------
(* Properties of the outcome records *)

\* C29: a call whose stored processing_status is analyzed has its row of
\* call_insights, written by the commit that set the status; the table is
\* keyed by call_id, so a call never has more than that one row.
C29_AnalyzedHasInsight ==
    /\ \A k \in DOMAIN callStatus :
          callStatus[k] = "analyzed" => insights[k].exists
    /\ DOMAIN insights = DOMAIN callStatus

\* a call that had failed is processed again with success: one commit sets
\* the status and rewrites the row the call already had
C29_Witness ==
    /\ psess.pc = "done"
    /\ psess.result.status = "success"
    /\ psess.status_before = "failed"
    /\ psess.loaded.exists
    /\ callStatus[psess.call] = "analyzed"
    /\ insights[psess.call] # psess.loaded

====
